---- MODULE Spec2Model ----
(***************************************************************************)
(* Model of the caching identifier-resolution layer of steam-api-client:   *)
(* the TTL cache (src/cache.rs) and CachingVanityUrlResolver               *)
(* (src/steam_client/resolver.rs).                                         *)
(*                                                                         *)
(* Time is counted in whole seconds of the monotonic clock (Instant).      *)
(* Option<T> is a sequence of length at most one: None is <<>>, Some(x)    *)
(* is <<x>>.                                                               *)
(***************************************************************************)
EXTENDS Integers, Sequences, FiniteSets, TLC

VARIABLES
    now,        \* the monotonic clock, Instant::now(), in seconds
    ticks,      \* number of clock advances so far
    cache,      \* CachingVanityUrlResolver.cache: the Cache behind the RwLock
    lock,       \* holder of the RwLock write guard: a task, or 0 when free
    pc,         \* per task: its position inside resolve / find
    arg,        \* per task: the id argument of its current resolve
    resolved,   \* per task: Option of the local `resolved` (outcome of find)
    calls,      \* per task: remote requests issued by its current resolve
    vshape,     \* per task: what the service answered to its vanity request
    players,    \* per task: Option of the player list the service answered
    failed,     \* per task: whether one of its requests was answered by a failure
    started,    \* number of resolve calls started so far
    remoteCalls, \* per id: remote requests issued for it so far
    lastReturn, \* Option of the most recent return of resolve: its argument,
                \* the value returned and what the call did
    lastStore,  \* per key: Option of the most recent Cache::set on it
    lastGet     \* Option of the most recent direct Cache::get, its inputs and
                \* output, until a Cache::set on its key

vars == <<now, ticks, cache, lock, pc, arg, resolved, calls, vshape, players,
          failed, started, remoteCalls, lastReturn, lastStore, lastGet>>

taskVars == <<lock, pc, arg, resolved, calls, vshape, players, failed,
              started, remoteCalls, lastReturn>>

----------------------------------------------------------------------------
(* Bounds of the model *)

MaxTicks == 2
NTasks == 2
MaxResolves == 2
MaxSeqResolves == 3

Tasks == 1..NTasks

\* The identifier callers pass to resolve.
ResolveIds == {"vanityname"}

\* The keys of the cache.
Ids == ResolveIds \cup {"76561"}

\* The canonical ids the remote service can report.
SteamIds == {"123", "76561"}

None == <<>>
Some(x) == <<x>>

\* Option<String>: the cached outcome type.
Outcomes == {None} \cup {Some(s) : s \in SteamIds}

----------------------------------------------------------------------------
(* std::collections::HashMap, as a set of (key, item) pairs *)

HashMap_new == {}

HashMap_get(m, k) ==
    IF \E e \in m : e.key = k
    THEN Some((CHOOSE e \in m : e.key = k).item)
    ELSE None

HashMap_insert_keeping_old(m, k, item) ==
    m \cup {[key |-> k, item |-> item]}

HashMap_insert(m, k, item) ==
    {e \in m : e.key # k} \cup {[key |-> k, item |-> item]}

----------------------------------------------------------------------------
(* src/cache.rs *)

\* Duration::from_secs(15 * 60)
TTL_SECS == 15 * 60

Cache_new == [inner |-> HashMap_new, ttl |-> TTL_SECS]

\* Cache::get(&mut self, key) at instant t: the returned Option<&V> and the
\* cache as the call leaves it.
Cache_get_evicting(c, key, t) ==
    LET item == HashMap_get(c.inner, key) IN
    IF item # None
    THEN IF t < item[1].expiration
         THEN [ret |-> Some(item[1].value), cache |-> c]
         ELSE [ret |-> None,
               cache |-> [c EXCEPT !.inner = {e \in c.inner : e.key # key}]]
    ELSE [ret |-> None, cache |-> c]

Cache_get_inclusive(c, key, t) ==
    LET item == HashMap_get(c.inner, key) IN
    IF item # None
    THEN IF t <= item[1].expiration
         THEN [ret |-> Some(item[1].value), cache |-> c]
         ELSE [ret |-> None, cache |-> c]
    ELSE [ret |-> None, cache |-> c]

Cache_get_never_expiring(c, key, t) ==
    LET item == HashMap_get(c.inner, key) IN
    IF item # None
    THEN [ret |-> Some(item[1].value), cache |-> c]
    ELSE [ret |-> None, cache |-> c]

Cache_get_sliding(c, key, t) ==
    LET item == HashMap_get(c.inner, key) IN
    IF item # None
    THEN IF t < item[1].expiration
         THEN [ret |-> Some(item[1].value),
               cache |-> [c EXCEPT !.inner =
                              HashMap_insert(c.inner, key,
                                             [item[1] EXCEPT
                                                  !.expiration = t + c.ttl])]]
         ELSE [ret |-> None, cache |-> c]
    ELSE [ret |-> None, cache |-> c]

Cache_get(c, key, t) ==
    LET item == HashMap_get(c.inner, key) IN
    IF item # None
    THEN IF t < item[1].expiration
         THEN [ret |-> Some(item[1].value), cache |-> c]
         ELSE [ret |-> None, cache |-> c]
    ELSE [ret |-> None, cache |-> c]

\* Cache::set(&mut self, key, value) at instant t.
Cache_set_keep_expiration(c, key, value, t) ==
    LET old == HashMap_get(c.inner, key)
        cache_item == [expiration |-> IF old # None THEN old[1].expiration
                                      ELSE t + c.ttl,
                       value |-> value]
    IN [c EXCEPT !.inner = HashMap_insert(c.inner, key, cache_item)]

Cache_set_first_writer_wins(c, key, value, t) ==
    LET cache_item == [expiration |-> t + c.ttl, value |-> value]
    IN IF HashMap_get(c.inner, key) # None THEN c
       ELSE [c EXCEPT !.inner = HashMap_insert(c.inner, key, cache_item)]

Cache_set(c, key, value, t) ==
    LET cache_item == [expiration |-> t + c.ttl, value |-> value]
    IN [c EXCEPT !.inner = HashMap_insert(c.inner, key, cache_item)]

----------------------------------------------------------------------------
(* The clock *)

\* The clock advances by one second, or jumps to one second short of a TTL.
TickSteps == {1, TTL_SECS - 1}

Tick(d) ==
    /\ ticks < MaxTicks
    /\ now' = now + d
    /\ ticks' = ticks + 1
    /\ UNCHANGED <<cache, lastStore, lastGet>>
    /\ UNCHANGED taskVars

----------------------------------------------------------------------------
(* The record kept of a Cache::set(k, v) made at the current instant: its
   arguments, its instant, and of the resolve that made it the number of
   remote requests, the vanity answer and the value it returned; and the
   same record of the set it replaced. *)

StoreRecord(k, v, n, shape, ret) ==
    [value |-> v, at |-> now, calls |-> n, via |-> shape, ret |-> ret,
     prev |-> IF lastStore[k] = None THEN None
              ELSE Some([f \in {"value", "at", "calls", "via", "ret"} |->
                            lastStore[k][1][f]])]

\* The two most recent sets on key k.
RecentStores(k) ==
    IF lastStore[k] = None THEN {}
    ELSE {[f \in {"value", "at", "calls", "via", "ret"} |-> lastStore[k][1][f]]}
         \cup (IF lastStore[k][1].prev = None THEN {}
               ELSE {lastStore[k][1].prev[1]})

----------------------------------------------------------------------------
(* Direct use of the cache: one call of Cache::get or Cache::set *)

DoGet(k) ==
    LET r == Cache_get(cache, k, now) IN
    /\ cache' = r.cache
    /\ lastGet' = Some([key |-> k, at |-> now, ret |-> r.ret])
    /\ UNCHANGED <<now, ticks, lastStore>>
    /\ UNCHANGED taskVars

DoSet(k, v) ==
    /\ cache' = Cache_set(cache, k, v, now)
    /\ lastStore' = [lastStore EXCEPT ![k] = Some(StoreRecord(k, v, 0, "direct", None))]
    /\ lastGet' = IF lastGet # None /\ lastGet[1].key = k THEN None ELSE lastGet
    /\ UNCHANGED <<now, ticks>>
    /\ UNCHANGED taskVars

----------------------------------------------------------------------------
(* Results and errors: Result<T, SasError> of src/error.rs *)

Ok(x) == [ok |-> TRUE, val |-> x]
Err(e) == [ok |-> FALSE, err |-> e]

ReqwestError == [variant |-> "ReqwestError"]
SerdeError == [variant |-> "SerdeError"]
ApiError(status) == [variant |-> "ApiError", status |-> status]
SteamApiError(msg, status) ==
    [variant |-> "SteamApiError", msg |-> msg, status |-> status]

\* StatusCode::NOT_FOUND
NOT_FOUND == 404

\* The value `e` built at the top of resolve.
NotFoundError_bad_request ==
    SteamApiError("Player with given ID does not exist", 400)

NotFoundError == SteamApiError("Player with given ID does not exist", NOT_FOUND)

\* Option::ok_or
ok_or(opt, e) == IF opt # None THEN Ok(opt[1]) ELSE Err(e)

----------------------------------------------------------------------------
(* JSON values (serde_json::Value) and the replies of the remote service *)

JNull == [t |-> "null"]
JStr(s) == [t |-> "str", s |-> s]
JNum(n) == [t |-> "num", n |-> n]
JObj(f) == [t |-> "obj", f |-> f]
JArr(a) == [t |-> "arr", a |-> a]

\* A body that is not JSON at all.
NotJson == [t |-> "invalid"]

\* Value's Index: a missing key, or indexing a non-object, yields Null.
Index(v, key) ==
    IF v.t = "obj" /\ key \in DOMAIN v.f THEN v.f[key] ELSE JNull

HasField(v, key, type) ==
    v.t = "obj" /\ key \in DOMAIN v.f /\ v.f[key].t = type

\* StatusCode::is_success
is_success(status) == status >= 200 /\ status < 300

\* A reply to a GET: the request failed in transport, or a status and a body.
TransportFailure == [kind |-> "transport"]
Http(status, body) == [kind |-> "http", status |-> status, body |-> body]

Wrap(v) == JObj([response |-> v])

PlayerJson(s) ==
    JObj([steamid |-> JStr(s), profileurl |-> JStr("url"),
          personaname |-> JStr("name"), avatarfull |-> JStr("avatar")])

\* Bodies of the vanity endpoint, by what the service reports.
VanityOkBody(s) ==
    Wrap(JObj([steamid |-> JStr(s), success |-> JNum(1)]))

VanityOkBodies == {VanityOkBody(s) : s \in SteamIds}

VanityNotFoundBodies ==
    {Wrap(JObj([message |-> JStr("No match"), success |-> JNum(42)]))}

MalformedVanityBodies ==
    {Wrap(JObj([success |-> JNum(1)])), JObj([other |-> JNull]), NotJson}

VanityBodies ==
    VanityOkBodies \cup VanityNotFoundBodies \cup MalformedVanityBodies

\* Bodies of the player-summaries endpoint.
PlayerLists ==
    {<<>>, <<"123">>, <<"76561">>, <<"76561", "123">>}

SummariesBody(l) ==
    Wrap(JObj([players |-> JArr([i \in 1..Len(l) |-> PlayerJson(l[i])])]))

MalformedSummariesBodies ==
    {Wrap(JObj([players |-> JArr(<<JObj([steamid |-> JStr("123")])>>)])),
     Wrap(JObj([other |-> JNull])),
     NotJson}

SummariesBodies ==
    {SummariesBody(l) : l \in PlayerLists} \cup MalformedSummariesBodies

Statuses == {200, 429, 500}

VanityReplies ==
    {TransportFailure} \cup {Http(st, b) : st \in Statuses, b \in VanityBodies}

SummariesReplies ==
    {TransportFailure} \cup {Http(st, b) : st \in Statuses, b \in SummariesBodies}

\* What the service answered, read off the reply itself: a failure (no
\* answer, a non-2xx status, a malformed body) or an answer.
IsFailure(reply, malformed) ==
    \/ reply.kind = "transport"
    \/ reply.status \notin 200..299
    \/ reply.body \in malformed

VanityAnswer(reply) ==
    IF IsFailure(reply, MalformedVanityBodies) THEN "failure"
    ELSE IF reply.body \in VanityNotFoundBodies THEN "NotFound"
    ELSE "Ok"

VanityAnswerId(reply) ==
    CHOOSE s \in SteamIds : reply.body = VanityOkBody(s)

SummariesAnswer(reply) ==
    IF IsFailure(reply, MalformedSummariesBodies) THEN None
    ELSE Some(CHOOSE l \in PlayerLists : reply.body = SummariesBody(l))

----------------------------------------------------------------------------
(* src/steam_client/resolver.rs: find *)

\* serde_json::from_value::<GetVanityUrlResponse>: an untagged enum, the
\* variants are tried in declaration order.
GetVanityUrlResponse_from_value(v) ==
    IF HasField(v, "steamid", "str") /\ HasField(v, "success", "num")
    THEN Ok([variant |-> "Ok", steamid |-> v.f.steamid.s])
    ELSE IF HasField(v, "message", "str") /\ HasField(v, "success", "num")
    THEN Ok([variant |-> "NotFound"])
    ELSE Err(SerdeError)

Player_is_valid(v) ==
    /\ HasField(v, "steamid", "str")
    /\ HasField(v, "profileurl", "str")
    /\ HasField(v, "personaname", "str")
    /\ HasField(v, "avatarfull", "str")

\* serde_json::from_value::<Vec<Player>>, keeping the steamid of each player.
Players_from_value(v) ==
    IF v.t = "arr" /\ \A i \in DOMAIN v.a : Player_is_valid(v.a[i])
    THEN Ok([i \in DOMAIN v.a |-> v.a[i].f.steamid.s])
    ELSE Err(SerdeError)

\* find from the reply to the ResolveVanityUrl request (lines 64-77): either
\* it returns (done), or it goes on to the GetPlayerSummaries request.
find_vanity_always_fallback(reply) ==
    IF reply.kind = "transport"
    THEN [done |-> TRUE, ret |-> Err(ReqwestError)]
    ELSE IF ~is_success(reply.status)
    THEN [done |-> TRUE, ret |-> Err(ApiError(reply.status))]
    ELSE IF reply.body = NotJson
    THEN [done |-> TRUE, ret |-> Err(ReqwestError)]
    ELSE LET vanity_res ==
                 GetVanityUrlResponse_from_value(Index(reply.body, "response"))
         IN IF ~vanity_res.ok
            THEN [done |-> TRUE, ret |-> Err(vanity_res.err)]
            ELSE [done |-> FALSE, ret |-> Ok(None)]

find_vanity_ignoring_status(reply) ==
    IF reply.kind = "transport"
    THEN [done |-> TRUE, ret |-> Err(ReqwestError)]
    ELSE IF ~is_success(reply.status)
    THEN [done |-> FALSE, ret |-> Ok(None)]
    ELSE IF reply.body = NotJson
    THEN [done |-> TRUE, ret |-> Err(ReqwestError)]
    ELSE LET vanity_res ==
                 GetVanityUrlResponse_from_value(Index(reply.body, "response"))
         IN IF ~vanity_res.ok
            THEN [done |-> TRUE, ret |-> Err(vanity_res.err)]
            ELSE IF vanity_res.val.variant = "Ok"
            THEN [done |-> TRUE, ret |-> Ok(Some(vanity_res.val.steamid))]
            ELSE [done |-> FALSE, ret |-> Ok(None)]

find_vanity(reply) ==
    IF reply.kind = "transport"
    THEN [done |-> TRUE, ret |-> Err(ReqwestError)]
    ELSE IF ~is_success(reply.status)
    THEN [done |-> TRUE, ret |-> Err(ApiError(reply.status))]
    ELSE IF reply.body = NotJson
    THEN [done |-> TRUE, ret |-> Err(ReqwestError)]
    ELSE LET vanity_res ==
                 GetVanityUrlResponse_from_value(Index(reply.body, "response"))
         IN IF ~vanity_res.ok
            THEN [done |-> TRUE, ret |-> Err(vanity_res.err)]
            ELSE IF vanity_res.val.variant = "Ok"
            THEN [done |-> TRUE, ret |-> Ok(Some(vanity_res.val.steamid))]
            ELSE [done |-> FALSE, ret |-> Ok(None)]

\* find from the reply to the GetPlayerSummaries request (lines 83-98).
find_summaries_last_player(reply) ==
    IF reply.kind = "transport"
    THEN Err(ReqwestError)
    ELSE IF ~is_success(reply.status)
    THEN Err(ApiError(reply.status))
    ELSE IF reply.body = NotJson
    THEN Err(ReqwestError)
    ELSE LET players_ ==
                 Players_from_value(Index(Index(reply.body, "response"),
                                          "players"))
         IN IF ~players_.ok
            THEN Err(players_.err)
            ELSE IF Len(players_.val) > 0
            THEN Ok(Some(players_.val[Len(players_.val)]))
            ELSE Ok(None)

find_summaries(reply) ==
    IF reply.kind = "transport"
    THEN Err(ReqwestError)
    ELSE IF ~is_success(reply.status)
    THEN Err(ApiError(reply.status))
    ELSE IF reply.body = NotJson
    THEN Err(ReqwestError)
    ELSE LET players_ ==
                 Players_from_value(Index(Index(reply.body, "response"),
                                          "players"))
         IN IF ~players_.ok
            THEN Err(players_.err)
            ELSE IF Len(players_.val) > 0
            THEN Ok(Some(players_.val[1]))
            ELSE Ok(None)

----------------------------------------------------------------------------
(* src/steam_client/resolver.rs: resolve, one action per stretch of code    *)
(* between two suspension points                                           *)

\* Line 36, `if let Some(inner) = item`: whether the lookup is answered from
\* the cache.
is_hit_found_only(item) == item # None /\ item[1] # None

is_hit(item) == item # None

\* Line 42, `self.find(id, client).await?`: an Err leaves resolve at once, an
\* Ok value becomes `resolved`.
try_find_swallowing(ret) == IF ret.ok THEN ret ELSE Ok(None)

try_find(ret) == ret

\* Line 46: the value handed to guard.set for the id.
stored_value_raw_id(id, outcome) == Some(id)

stored_value(id, outcome) == outcome

\* Whether the guard of the first block (lines 32-40) is still held when
\* find is called.
guard_held_in_find_unscoped == TRUE

guard_held_in_find == FALSE

\* A caller invokes resolve(id), the number of calls so far being below
\* max: the task reaches the first cache.write().
StartWithin(t, i, max) ==
    /\ pc[t] = "idle"
    /\ started < max
    /\ pc' = [pc EXCEPT ![t] = "wait_lock1"]
    /\ arg' = [arg EXCEPT ![t] = i]
    /\ started' = started + 1
    /\ UNCHANGED <<now, ticks, cache, lock, resolved, calls, vshape, players,
                   failed, remoteCalls, lastReturn, lastStore, lastGet>>

Start(t, i) == StartWithin(t, i, MaxResolves)

\* self.cache.write().await completes (line 33): the task holds the guard.
Acquire1(t) ==
    /\ pc[t] = "wait_lock1"
    /\ lock = 0
    /\ lock' = t
    /\ pc' = [pc EXCEPT ![t] = "locked1"]
    /\ UNCHANGED <<now, ticks, cache, arg, resolved, calls, vshape, players,
                   failed, started, remoteCalls, lastReturn, lastStore,
                   lastGet>>

\* resolve returns res to its caller: the call is recorded with what it did
\* (whether the cache answered it, its number of sets and remote requests,
\* what the service answered) and the task's locals are dropped.
Return(t, res, fromCache, sets, shape, list, failure) ==
    /\ lastReturn' = Some([arg |-> arg[t], result |-> res,
                           hit |-> fromCache, stores |-> sets,
                           calls |-> calls[t], vshape |-> shape,
                           players |-> list, failed |-> failure])
    /\ pc' = [pc EXCEPT ![t] = "idle"]
    /\ arg' = [arg EXCEPT ![t] = "vanityname"]
    /\ resolved' = [resolved EXCEPT ![t] = None]
    /\ calls' = [calls EXCEPT ![t] = 0]
    /\ vshape' = [vshape EXCEPT ![t] = "none"]
    /\ players' = [players EXCEPT ![t] = None]
    /\ failed' = [failed EXCEPT ![t] = FALSE]

\* Lines 35-42 and 62-64: guard.get(id); on a hit return the cached outcome,
\* otherwise drop the guard, call find and send the ResolveVanityUrl request.
Lookup(t) ==
    /\ pc[t] = "locked1"
    /\ lock = t
    /\ LET r == Cache_get(cache, arg[t], now) IN
       /\ cache' = r.cache
       /\ IF is_hit(r.ret)
          THEN /\ Return(t, ok_or(r.ret[1], NotFoundError), TRUE, 0, "none",
                         None, FALSE)
               /\ lock' = 0
               /\ UNCHANGED remoteCalls
          ELSE /\ lock' = IF guard_held_in_find THEN t ELSE 0
               /\ calls' = [calls EXCEPT ![t] = @ + 1]
               /\ remoteCalls' = [remoteCalls EXCEPT ![arg[t]] = @ + 1]
               /\ pc' = [pc EXCEPT ![t] = "vanity_wait"]
               /\ UNCHANGED <<arg, resolved, vshape, players, failed,
                              lastReturn>>
    /\ UNCHANGED <<now, ticks, started, lastStore, lastGet>>

\* find returned ret to resolve (line 42), after the service answered shape
\* and list: resolve returns the error, or goes on to the second
\* cache.write().
FindReturns(t, ret, shape, list, failure) ==
    LET r == try_find(ret) IN
    IF r.ok
    THEN /\ resolved' = [resolved EXCEPT ![t] = Some(r.val)]
         /\ pc' = [pc EXCEPT ![t] = "wait_lock2"]
         /\ vshape' = [vshape EXCEPT ![t] = shape]
         /\ players' = [players EXCEPT ![t] = list]
         /\ failed' = [failed EXCEPT ![t] = failure]
         /\ UNCHANGED <<arg, calls, lock, lastReturn>>
    ELSE /\ Return(t, Err(r.err), FALSE, 0, shape, list, failure)
         /\ lock' = IF lock = t THEN 0 ELSE lock

\* The reply to the ResolveVanityUrl request arrives (lines 64-83): find
\* returns, or sends the GetPlayerSummaries request.
VanityReply(t, reply) ==
    /\ pc[t] = "vanity_wait"
    /\ LET f == find_vanity(reply)
           shape == VanityAnswer(reply)
       IN IF ~f.done
          THEN /\ calls' = [calls EXCEPT ![t] = @ + 1]
               /\ remoteCalls' = [remoteCalls EXCEPT ![arg[t]] = @ + 1]
               /\ pc' = [pc EXCEPT ![t] = "summaries_wait"]
               /\ vshape' = [vshape EXCEPT ![t] = shape]
               /\ failed' = [failed EXCEPT ![t] = (shape = "failure")]
               /\ UNCHANGED <<arg, resolved, players, lock, lastReturn>>
          ELSE /\ FindReturns(t, f.ret, shape, None, shape = "failure")
               /\ UNCHANGED remoteCalls
    /\ UNCHANGED <<now, ticks, cache, started, lastStore, lastGet>>

\* The reply to the GetPlayerSummaries request arrives (lines 83-98, 42).
SummariesReply(t, reply) ==
    /\ pc[t] = "summaries_wait"
    /\ FindReturns(t, find_summaries(reply), vshape[t],
                   SummariesAnswer(reply),
                   failed[t] \/ SummariesAnswer(reply) = None)
    /\ UNCHANGED <<now, ticks, cache, started, remoteCalls, lastStore,
                   lastGet>>

\* self.cache.write().await completes (line 45).
Acquire2(t) ==
    /\ pc[t] = "wait_lock2"
    /\ lock = 0
    /\ lock' = t
    /\ pc' = [pc EXCEPT ![t] = "locked2"]
    /\ UNCHANGED <<now, ticks, cache, arg, resolved, calls, vshape, players,
                   failed, started, remoteCalls, lastReturn, lastStore,
                   lastGet>>

\* Lines 46-50: guard.set(id, resolved), drop the guard, return.
Store(t) ==
    /\ pc[t] = "locked2"
    /\ lock = t
    /\ LET v == stored_value(arg[t], resolved[t][1])
           ret == ok_or(resolved[t][1], NotFoundError)
       IN /\ cache' = Cache_set(cache, arg[t], v, now)
          /\ lastStore' = [lastStore EXCEPT
                              ![arg[t]] = Some(StoreRecord(arg[t], v, calls[t],
                                                           vshape[t],
                                                           Some(ret)))]
          /\ Return(t, ret, FALSE, 1, vshape[t], players[t], failed[t])
    /\ lock' = 0
    /\ UNCHANGED <<now, ticks, started, remoteCalls, lastGet>>

----------------------------------------------------------------------------

Init ==
    /\ now = 0
    /\ ticks = 0
    /\ cache = Cache_new
    /\ lock = 0
    /\ pc = [t \in Tasks |-> "idle"]
    /\ arg = [t \in Tasks |-> "vanityname"]
    /\ resolved = [t \in Tasks |-> None]
    /\ calls = [t \in Tasks |-> 0]
    /\ vshape = [t \in Tasks |-> "none"]
    /\ players = [t \in Tasks |-> None]
    /\ failed = [t \in Tasks |-> FALSE]
    /\ started = 0
    /\ remoteCalls = [i \in Ids |-> 0]
    /\ lastReturn = None
    /\ lastStore = [k \in Ids |-> None]
    /\ lastGet = None

CacheNext ==
    \/ \E d \in TickSteps : Tick(d)
    \/ \E k \in Ids : DoGet(k)
    \/ \E k \in Ids, v \in Outcomes : DoSet(k, v)

CacheSpec == Init /\ [][CacheNext]_vars

\* Concurrent callers of one resolver.
Next ==
    \/ \E d \in TickSteps : Tick(d)
    \/ \E t \in Tasks, i \in ResolveIds : Start(t, i)
    \/ \E t \in Tasks : Acquire1(t)
    \/ \E t \in Tasks : Lookup(t)
    \/ \E t \in Tasks, reply \in VanityReplies : VanityReply(t, reply)
    \/ \E t \in Tasks, reply \in SummariesReplies : SummariesReply(t, reply)
    \/ \E t \in Tasks : Acquire2(t)
    \/ \E t \in Tasks : Store(t)

Spec == Init /\ [][Next]_vars

\* The next step of task t in resolve, whichever it is.
TaskStep(t) ==
    \/ Acquire1(t)
    \/ Lookup(t)
    \/ \E reply \in VanityReplies : VanityReply(t, reply)
    \/ \E reply \in SummariesReplies : SummariesReply(t, reply)
    \/ Acquire2(t)
    \/ Store(t)

\* Concurrent callers with a fair lock and a remote service that answers:
\* a task at its lookup or its store runs on (no suspension point there),
\* every request in flight is eventually answered by a response or an
\* error, and a task waiting in cache.write() while the guard stays free is
\* granted it (tokio::sync::RwLock serves its waiters in order).
Fairness == \A t \in Tasks : WF_vars(TaskStep(t))

\* For termination only the order of the instants of lookups, stores and
\* expirations matters: the clock moves in steps just short of a TTL.
FairNext ==
    \/ Tick(TTL_SECS - 1)
    \/ \E t \in Tasks, i \in ResolveIds : Start(t, i)
    \/ \E t \in Tasks : TaskStep(t)

FairSpec == Init /\ [][FairNext]_vars /\ Fairness

\* Sequential callers: a resolve starts only after every earlier one returned.
SeqStart(t, i) ==
    /\ \A u \in Tasks : pc[u] = "idle"
    /\ StartWithin(t, i, MaxSeqResolves)

SeqNext ==
    \/ \E d \in TickSteps : Tick(d)
    \/ \E t \in Tasks, i \in ResolveIds : SeqStart(t, i)
    \/ \E t \in Tasks : Acquire1(t)
    \/ \E t \in Tasks : Lookup(t)
    \/ \E t \in Tasks, reply \in VanityReplies : VanityReply(t, reply)
    \/ \E t \in Tasks, reply \in SummariesReplies : SummariesReply(t, reply)
    \/ \E t \in Tasks : Acquire2(t)
    \/ \E t \in Tasks : Store(t)

SeqSpec == Init /\ [][SeqNext]_vars

----------------------------------------------------------------------------
(* Properties of the TTL cache, checked under CacheSpec *)

\* The entries the map holds for key k.
EntriesOf(k) == {e \in cache.inner : e.key = k}

\* C1. TTL correctness: when set(k, v) ran at instant t and no later set on
\* k ran, a get(k) at instant `at` returns v if and only if at < t + 15
\* minutes; at t + 15 minutes exactly, and later, it returns nothing.
C1_TtlCorrectness ==
    lastGet # None =>
        LET g == lastGet[1] IN
        lastStore[g.key] # None =>
            LET s == lastStore[g.key][1] IN
            /\ (g.ret = Some(s.value)) <=> (g.at < s.at + 900)
            /\ g.at >= s.at + 900 => g.ret = None

\* A get exactly 15 minutes after the set on its key returned nothing.
C1_Witness ==
    /\ lastGet # None
    /\ lastStore[lastGet[1].key] # None
    /\ lastGet[1].at = lastStore[lastGet[1].key][1].at + 900
    /\ lastGet[1].ret = None

\* C6. Overwrite semantics: after set(k, v1) at t1 and then set(k, v2) at
\* t2 >= t1, a get(k) at any instant before t2 + 15 minutes returns v2, also
\* at instants at which the first entry would have expired; the map holds
\* for k exactly the second entry, expiring at t2 + 15 minutes.
C6_Overwrite ==
    \A k \in Ids :
        (lastStore[k] # None /\ lastStore[k][1].prev # None) =>
            LET s == lastStore[k][1] IN
            /\ s.prev[1].at <= s.at
            /\ EntriesOf(k) =
                   {[key |-> k,
                     item |-> [expiration |-> s.at + 900, value |-> s.value]]}
            /\ (lastGet # None /\ lastGet[1].key = k
                    /\ lastGet[1].at < s.at + 900)
                   => lastGet[1].ret = Some(s.value)

\* A get returned the second value at an instant at which the first entry,
\* holding another value, would have expired.
C6_Witness ==
    /\ lastGet # None
    /\ lastStore[lastGet[1].key] # None
    /\ LET s == lastStore[lastGet[1].key][1] IN
       /\ s.prev # None
       /\ s.prev[1].value # s.value
       /\ s.prev[1].at < s.at
       /\ lastGet[1].at >= s.prev[1].at + 900
       /\ lastGet[1].at < s.at + 900
       /\ lastGet[1].ret = Some(s.value)

\* C8. Lazy expiration: a get leaves the map, every entry and ttl as they
\* were, and an entry leaves the map only in a step that sets its key.
C8_GetChangesNothing ==
    [][/\ lastGet' # lastGet /\ lastGet' # None => cache' = cache
       /\ \A e \in cache.inner :
              e \notin cache'.inner => lastStore'[e.key] # lastStore[e.key]
      ]_vars

\* A get found an expired entry, returned nothing, and the entry is still
\* in the map.
C8_Witness ==
    /\ lastGet # None
    /\ lastGet[1].ret = None
    /\ \E e \in cache.inner :
           /\ e.key = lastGet[1].key
           /\ e.item.expiration <= lastGet[1].at

\* C9. Cache entry invariant: at most one entry per key, every entry expires
\* 15 minutes after the most recent set on its key, and ttl is the 15
\* minutes fixed at construction.
C9_EntryInvariant ==
    /\ \A e1, e2 \in cache.inner : e1.key = e2.key => e1 = e2
    /\ \A e \in cache.inner :
           /\ lastStore[e.key] # None
           /\ e.item.expiration = lastStore[e.key][1].at + 900
    /\ cache.ttl = 900

\* Both keys are in the map, one of them set again at a later instant.
C9_Witness ==
    /\ Cardinality(cache.inner) = 2
    /\ \E k \in Ids :
           /\ lastStore[k] # None
           /\ lastStore[k][1].prev # None
           /\ lastStore[k][1].prev[1].at < lastStore[k][1].at

----------------------------------------------------------------------------
(* Properties of resolve under sequential callers, checked under SeqSpec *)

\* The not-found failure resolve reports.
NotFoundResult ==
    Err(SteamApiError("Player with given ID does not exist", 404))

\* Task t runs its cache lookup in this step.
LookupStep(t) == pc[t] = "locked1" /\ pc'[t] # "locked1"

\* Task t runs its cache store in this step.
StoreStep(t) == pc[t] = "locked2" /\ pc'[t] # "locked2"

\* Task t returns from resolve in this step.
ReturnStep(t) == pc[t] # "idle" /\ pc'[t] = "idle"

\* C2. Negative caching, sequential callers: when a resolve(id) completed
\* with the service reporting not-found, a later resolve(id) whose cache
\* lookup runs less than 15 minutes after that outcome was stored fails with
\* the not-found error and issues no remote request.
C2_NegativeCaching ==
    [][\A t \in Tasks :
          (/\ LookupStep(t)
           /\ \E s \in RecentStores(arg[t]) :
                  /\ s.via = "NotFound"
                  /\ s.ret = Some(NotFoundResult)
                  /\ now < s.at + 900)
          => /\ ReturnStep(t)
             /\ lastReturn'[1].arg = arg[t]
             /\ lastReturn'[1].result = NotFoundResult
             /\ lastReturn'[1].calls = 0
             /\ remoteCalls' = remoteCalls
      ]_vars

\* A second resolve, looking up in the last second of the window of a stored
\* not-found outcome, failed with not-found without a remote request.
C2_Witness ==
    /\ lastReturn # None
    /\ LET r == lastReturn[1] IN
       /\ r.result = NotFoundResult
       /\ r.hit
       /\ r.calls = 0
       /\ lastStore[r.arg] # None
       /\ lastStore[r.arg][1].value = None
       /\ lastStore[r.arg][1].via = "NotFound"
       /\ now = lastStore[r.arg][1].at + 899
       /\ remoteCalls[r.arg] = 2

\* C3. Positive caching, sequential callers: when a resolve(id) returned
\* Ok(c), a later resolve(id) whose cache lookup runs less than 15 minutes
\* after that outcome was stored returns Ok(c) and issues no remote request.
C3_PositiveCaching ==
    [][\A t \in Tasks :
          \A s \in RecentStores(arg[t]) :
              (/\ LookupStep(t)
               /\ s.ret # None
               /\ s.ret[1].ok
               /\ now < s.at + 900)
              => /\ ReturnStep(t)
                 /\ lastReturn'[1].arg = arg[t]
                 /\ Some(lastReturn'[1].result) = s.ret
                 /\ lastReturn'[1].calls = 0
                 /\ remoteCalls' = remoteCalls
      ]_vars

\* A second resolve of "vanityname" returned the canonical id the first one
\* stored, in the last second of its window, without a remote request.
C3_Witness ==
    /\ lastReturn # None
    /\ LET r == lastReturn[1] IN
       /\ r.arg = "vanityname"
       /\ r.result = Ok("123")
       /\ r.hit
       /\ r.calls = 0
       /\ lastStore[r.arg] # None
       /\ lastStore[r.arg][1].ret = Some(Ok("123"))
       /\ now = lastStore[r.arg][1].at + 899
       /\ remoteCalls[r.arg] = 1

\* C10, as stated. Remote-call count on the found path: two sequential
\* resolves of a found identifier within the TTL issue exactly two remote
\* requests in total, all made by the first resolve.
C10_ExactlyOnePair ==
    (/\ lastReturn # None
     /\ lastReturn[1].hit
     /\ lastReturn[1].result.ok)
    => /\ lastReturn[1].calls = 0
       /\ lastStore[lastReturn[1].arg] # None
       /\ lastStore[lastReturn[1].arg][1].calls + lastReturn[1].calls = 2

\* C10, amended. A resolve that misses the cache issues the vanity request
\* and, only when that is answered with the not-found shape, the direct
\* lookup; so two sequential resolves of a found identifier within the TTL
\* issue one request in total when the vanity request found the id and two
\* when the direct lookup found it, all made by the first resolve.
C10_OneLookup ==
    /\ []((lastReturn # None /\ ~lastReturn[1].hit) =>
              /\ lastReturn[1].calls \in {1, 2}
              /\ lastReturn[1].calls = 2 <=> lastReturn[1].vshape = "NotFound")
    /\ [][\A t \in Tasks :
             \A s \in RecentStores(arg[t]) :
                 (/\ LookupStep(t)
                  /\ s.ret # None
                  /\ s.ret[1].ok
                  /\ now < s.at + 900)
                 => /\ ReturnStep(t)
                    /\ lastReturn'[1].calls = 0
                    /\ remoteCalls' = remoteCalls
                    /\ s.via \in {"Ok", "NotFound"}
                    /\ s.via = "Ok" => s.calls + lastReturn'[1].calls = 1
                    /\ s.via = "NotFound" =>
                           s.calls + lastReturn'[1].calls = 2
         ]_vars

\* A second resolve returned the cached id of an identifier the first
\* resolve found with the vanity request alone: one remote request in all.
C10_Witness ==
    /\ lastReturn # None
    /\ LET r == lastReturn[1] IN
       /\ r.hit
       /\ r.result.ok
       /\ r.calls = 0
       /\ lastStore[r.arg] # None
       /\ lastStore[r.arg][1].via = "Ok"
       /\ lastStore[r.arg][1].calls = 1
       /\ remoteCalls[r.arg] = 1

----------------------------------------------------------------------------
(* Properties of resolve under concurrent callers, checked under Spec *)

TransientVariants == {"ReqwestError", "ApiError", "SerdeError"}

\* C4. Failures are never cached: a resolve whose request was answered by a
\* failure returns that transport, status or format error at once, performs
\* no set and leaves the cache as it was; every set is made by a resolve
\* whose find completed without failure and writes the outcome of that find;
\* a lookup that finds no unexpired entry issues the remote lookup.
C4_FailuresNotCached ==
    /\ [](/\ \A t \in Tasks : ~failed[t]
          /\ lastReturn # None =>
                 LET r == lastReturn[1] IN
                 /\ r.failed =>
                        /\ r.stores = 0
                        /\ ~r.result.ok
                        /\ r.result.err.variant \in TransientVariants
                 /\ (/\ ~r.result.ok
                     /\ r.result.err.variant \in TransientVariants)
                    => r.failed /\ r.stores = 0)
    /\ [][/\ \A t \in Tasks :
                 (/\ ReturnStep(t)
                  /\ lastReturn'[1].failed)
                 => cache' = cache /\ lastStore' = lastStore
          /\ (cache' # cache \/ lastStore' # lastStore) =>
                 \E t \in Tasks :
                     /\ StoreStep(t)
                     /\ ~failed[t]
                     /\ resolved[t] # None
                     /\ lastStore'[arg[t]][1].value = resolved[t][1]
                     /\ \E e \in cache'.inner :
                            e.key = arg[t] /\ e.item.value = resolved[t][1]
          /\ \A t \in Tasks :
                 (/\ LookupStep(t)
                  /\ \/ lastStore[arg[t]] = None
                     \/ now >= lastStore[arg[t]][1].at + 900)
                 => pc'[t] = "vanity_wait" /\ calls'[t] = 1
         ]_vars

\* A resolve failed on a transport error, nothing is cached for its id, and
\* another resolve of the same id has its vanity request in flight.
C4_Witness ==
    /\ lastReturn # None
    /\ lastReturn[1].failed
    /\ lastReturn[1].result = Err(ReqwestError)
    /\ lastStore[lastReturn[1].arg] = None
    /\ cache.inner = {}
    /\ \E u \in Tasks :
           /\ arg[u] = lastReturn[1].arg
           /\ pc[u] = "vanity_wait"
    /\ remoteCalls[lastReturn[1].arg] >= 2

\* C5. Fallback path: on a cache miss with the vanity request answered by
\* the not-found shape, resolve returns Ok(steamid of the first player) when
\* the direct lookup answers a non-empty list and the not-found error when
\* it answers an empty list, and it stores that outcome under id.
C5_Fallback ==
    /\ []((/\ lastReturn # None
           /\ ~lastReturn[1].hit
           /\ lastReturn[1].vshape = "NotFound"
           /\ lastReturn[1].players # None)
          => LET r == lastReturn[1] IN
             /\ r.stores = 1
             /\ r.players[1] # <<>> => r.result = Ok(r.players[1][1])
             /\ r.players[1] = <<>> => r.result = NotFoundResult)
    /\ [][\A t \in Tasks :
             (/\ StoreStep(t)
              /\ vshape[t] = "NotFound"
              /\ players[t] # None)
             => {e \in cache'.inner : e.key = arg[t]} =
                    {[key |-> arg[t],
                      item |-> [expiration |-> now + 900,
                                value |-> IF players[t][1] = <<>> THEN None
                                          ELSE Some(players[t][1][1])]]}
         ]_vars

\* A resolve of "vanityname" fell back to the direct lookup, which answered
\* two players, and returned and stored the id of the first.
C5_Witness ==
    /\ lastReturn # None
    /\ LET r == lastReturn[1] IN
       /\ r.arg = "vanityname"
       /\ ~r.hit
       /\ r.vshape = "NotFound"
       /\ r.players = Some(<<"76561", "123">>)
       /\ r.result = Ok("76561")
       /\ r.calls = 2
       /\ \E e \in cache.inner :
              e.key = "vanityname" /\ e.item.value = Some("76561")

\* C7. The cache lock is never held across a remote call: a task with a
\* request in flight holds no guard, and whoever holds the guard is at its
\* lookup or its store, not waiting for the network or for the lock.
C7_NoLockAcrossRemoteCall ==
    /\ \A t \in Tasks :
           pc[t] \in {"vanity_wait", "summaries_wait"} => lock # t
    /\ lock # 0 => pc[lock] \in {"locked1", "locked2"}

\* One task has a request in flight while another holds the guard.
C7_Witness ==
    \E t, u \in Tasks :
        /\ t # u
        /\ pc[t] \in {"vanity_wait", "summaries_wait"}
        /\ lock = u

\* C11, as stated. No re-query inside the negative TTL window, under any
\* interleaving: once a resolve has set (id, None) at instant t, no remote
\* request for id is issued at an instant in [t, t + 15 minutes) and every
\* resolve(id) that returns in that window fails with not-found.
C11_NoRequeryAnyInterleaving ==
    [][\A i \in ResolveIds :
          (\E s \in RecentStores(i) :
               /\ s.value = None
               /\ s.at <= now
               /\ now < s.at + 900)
          => /\ remoteCalls'[i] = remoteCalls[i]
             /\ \A t \in Tasks :
                    (ReturnStep(t) /\ arg[t] = i)
                    => lastReturn'[1].result = NotFoundResult
      ]_vars

\* C11, amended. While the most recent set on id stored None less than 15
\* minutes ago, every resolve(id) whose cache lookup runs fails with
\* not-found at once and issues no remote request; the only remote request
\* issued for id in that window is the direct lookup of a resolve that had
\* missed the cache before and whose vanity request was still in flight.
C11_NoRequeryAfterLookup ==
    [][\A i \in ResolveIds :
          (/\ lastStore[i] # None
           /\ lastStore[i][1].value = None
           /\ now < lastStore[i][1].at + 900)
          => /\ \A t \in Tasks :
                    (LookupStep(t) /\ arg[t] = i)
                    => /\ ReturnStep(t)
                       /\ lastReturn'[1].arg = i
                       /\ lastReturn'[1].hit
                       /\ lastReturn'[1].result = NotFoundResult
                       /\ lastReturn'[1].calls = 0
                       /\ remoteCalls' = remoteCalls
             /\ remoteCalls'[i] # remoteCalls[i] =>
                    \E t \in Tasks :
                        /\ arg[t] = i
                        /\ pc[t] = "vanity_wait"
                        /\ pc'[t] = "summaries_wait"
                        /\ remoteCalls'[i] = remoteCalls[i] + 1
      ]_vars

\* One second after a resolve stored None for the id, under concurrent
\* callers, another resolve looked it up and failed with not-found from the
\* cache; the two remote requests of the first resolve are all there were.
C11_Witness ==
    \E i \in ResolveIds :
        /\ lastStore[i] # None
        /\ lastStore[i][1].value = None
        /\ lastStore[i][1].calls = 2
        /\ now = lastStore[i][1].at + 1
        /\ lastReturn # None
        /\ lastReturn[1].arg = i
        /\ lastReturn[1].hit
        /\ lastReturn[1].result = NotFoundResult
        /\ remoteCalls[i] = 2

\* The unexpired entries of the map for key k at the current instant.
UnexpiredEntries(k) == {e \in EntriesOf(k) : now < e.item.expiration}

\* C12. NotFound is stable and distinct from transient failures: resolve
\* returns the not-found error (fixed message, status 404) if and only if
\* its outcome is None, that is, its lookup read an unexpired cached None or
\* both remote requests were answered without failure and matched no
\* account; the cached path and the fresh path report the same error value,
\* and a transport, status or format failure is never reported as not-found.
C12_NotFoundStable ==
    /\ [](lastReturn # None =>
              LET r == lastReturn[1] IN
              /\ ~r.hit =>
                     (r.result = NotFoundResult
                          <=> /\ r.calls = 2
                              /\ r.vshape = "NotFound"
                              /\ r.players = Some(<<>>)
                              /\ ~r.failed)
              /\ r.failed =>
                     /\ ~r.result.ok
                     /\ r.result # NotFoundResult
                     /\ r.result.err.variant # "SteamApiError"
              /\ (~r.result.ok /\ r.result.err.variant = "SteamApiError")
                     => r.result = NotFoundResult)
    /\ [][\A t \in Tasks :
             (LookupStep(t) /\ ReturnStep(t))
             => /\ lastReturn'[1].hit
                /\ lastReturn'[1].result = NotFoundResult
                       <=> \E e \in UnexpiredEntries(arg[t]) :
                               e.item.value = None
         ]_vars

\* A resolve failed with not-found from the cache, with the same error value
\* that the resolve which stored the negative outcome, after two remote
\* requests, had returned.
C12_Witness ==
    /\ lastReturn # None
    /\ LET r == lastReturn[1] IN
       /\ r.hit
       /\ r.result = NotFoundResult
       /\ lastStore[r.arg] # None
       /\ lastStore[r.arg][1].via = "NotFound"
       /\ lastStore[r.arg][1].calls = 2
       /\ lastStore[r.arg][1].ret = Some(r.result)
       /\ \E e \in UnexpiredEntries(r.arg) : e.item.value = None

\* C13. The duplicate-fetch race is benign: a lookup that finds no unexpired
\* entry issues the vanity request whether or not another resolve of the
\* same id is in flight; and when a resolve stores its outcome while the
\* entry stored by the previous resolve of the same id is still unexpired
\* (both had missed the cache), and the service had given both the same
\* answers, it returns the same result as that resolve and leaves for the id
\* exactly one entry, holding that common outcome.
C13_DuplicateFetchBenign ==
    [][\A t \in Tasks :
          /\ (LookupStep(t) /\ UnexpiredEntries(arg[t]) = {})
             => /\ pc'[t] = "vanity_wait"
                /\ remoteCalls'[arg[t]] = remoteCalls[arg[t]] + 1
          /\ (/\ StoreStep(t)
              /\ lastStore[arg[t]] # None
              /\ now < lastStore[arg[t]][1].at + 900
              /\ lastReturn # None
              /\ lastReturn[1].arg = arg[t]
              /\ lastReturn[1].stores = 1
              /\ lastStore[arg[t]][1].ret = Some(lastReturn[1].result)
              /\ lastReturn[1].vshape = vshape[t]
              /\ lastReturn[1].players = players[t]
              /\ vshape[t] = "Ok" =>
                     lastStore[arg[t]][1].value = resolved[t][1])
             => /\ lastReturn'[1].result = lastReturn[1].result
                /\ lastReturn'[1].stores = 1
                /\ {e \in cache'.inner : e.key = arg[t]} =
                       {[key |-> arg[t],
                         item |-> [expiration |-> now + 900,
                                   value |-> lastStore[arg[t]][1].value]]}
                /\ lastReturn'[1].result =
                       ok_or(lastStore[arg[t]][1].value, NotFoundError)
      ]_vars

\* Two resolves of the same id both missed the cache at the same instant,
\* each issued its two remote requests, got the same answers, returned the
\* same id and stored it; the map holds that id.
C13_Witness ==
    \E i \in ResolveIds :
        /\ ticks = 0
        /\ remoteCalls[i] = 4
        /\ lastStore[i] # None
        /\ lastStore[i][1].prev # None
        /\ lastStore[i][1].calls = 2
        /\ lastStore[i][1].prev[1].calls = 2
        /\ lastStore[i][1].value = Some("76561")
        /\ lastStore[i][1].prev[1].value = Some("76561")
        /\ lastStore[i][1].ret = lastStore[i][1].prev[1].ret
        /\ lastReturn # None
        /\ lastReturn[1].result = Ok("76561")
        /\ \A e \in EntriesOf(i) : e.item.value = Some("76561")
        /\ EntriesOf(i) # {}
        /\ \A t \in Tasks : pc[t] = "idle"

\* C14. Last writer wins: every store of a resolve replaces whatever the map
\* held for its id by its own outcome, expiring 15 minutes after the store,
\* so after any number of racing stores the entry for the id is that of the
\* set which held the guard last, in whatever order the resolves started or
\* were answered; a resolve that stored earlier has returned its own
\* outcome, whatever the entry holds now.
C14_LastWriterWins ==
    /\ [](\A i \in ResolveIds :
              lastStore[i] # None =>
                  /\ EntriesOf(i) =
                         {[key |-> i,
                           item |-> [expiration |-> lastStore[i][1].at + 900,
                                     value |-> lastStore[i][1].value]]}
                  /\ \A s \in RecentStores(i) :
                         s.ret = Some(ok_or(s.value, NotFoundError)))
    /\ [][\A t \in Tasks :
             StoreStep(t)
             => /\ lock = t
                /\ {e \in cache'.inner : e.key = arg[t]} =
                       {[key |-> arg[t],
                         item |-> [expiration |-> now + 900,
                                   value |-> resolved[t][1]]]}
                /\ lastStore'[arg[t]][1].value = resolved[t][1]
                /\ lastStore'[arg[t]][1].at = now
                /\ lastReturn'[1].result = ok_or(resolved[t][1], NotFoundError)
         ]_vars

\* Two resolves raced and the service changed its answer between them: the
\* one that stored first returned Ok("123"); the other stored None one
\* second later, and the map holds None, expiring 15 minutes after that.
C14_Witness ==
    \E i \in ResolveIds :
        /\ lastStore[i] # None
        /\ lastStore[i][1].prev # None
        /\ lastStore[i][1].prev[1].ret = Some(Ok("123"))
        /\ lastStore[i][1].value = None
        /\ lastStore[i][1].at = lastStore[i][1].prev[1].at + 1
        /\ lastReturn # None
        /\ lastReturn[1].result = NotFoundResult
        /\ EntriesOf(i) =
               {[key |-> i,
                 item |-> [expiration |-> lastStore[i][1].at + 900,
                           value |-> None]]}

\* C15. Ordering of the two remote requests of find: the first request of a
\* resolve is the vanity request; the direct lookup is issued if and only if
\* the vanity request was answered, with a success status, by a body of the
\* not-found shape; a vanity answer carrying a steamid makes find return
\* that steamid, and a failed vanity request (transport, status, body) makes
\* find return that error, both without a direct lookup; a resolve issues at
\* most two remote requests.
C15_CallOrdering ==
    /\ [](/\ \A t \in Tasks :
                 /\ calls[t] <= 2
                 /\ pc[t] = "vanity_wait" => calls[t] = 1
                 /\ pc[t] = "summaries_wait" =>
                        calls[t] = 2 /\ vshape[t] = "NotFound"
          /\ lastReturn # None =>
                 /\ lastReturn[1].calls <= 2
                 /\ lastReturn[1].calls = 2 <=>
                        lastReturn[1].vshape = "NotFound"
                 /\ lastReturn[1].vshape = "Ok" =>
                        lastReturn[1].result.ok /\ lastReturn[1].players = None
                 /\ lastReturn[1].vshape = "failure" =>
                        /\ ~lastReturn[1].result.ok
                        /\ lastReturn[1].result.err.variant
                               \in TransientVariants
                        /\ lastReturn[1].players = None)
    /\ [][\A t \in Tasks :
             /\ (calls'[t] > calls[t] /\ calls[t] = 0)
                => LookupStep(t) /\ pc'[t] = "vanity_wait"
             /\ (calls'[t] > calls[t] /\ calls[t] > 0)
                => /\ pc[t] = "vanity_wait"
                   /\ pc'[t] = "summaries_wait"
                   /\ calls'[t] = 2
             /\ (pc[t] = "vanity_wait" /\ pc'[t] # "vanity_wait")
                => \/ /\ pc'[t] = "summaries_wait"
                      /\ vshape'[t] = "NotFound"
                      /\ remoteCalls'[arg[t]] = remoteCalls[arg[t]] + 1
                   \/ /\ pc'[t] = "wait_lock2"
                      /\ vshape'[t] = "Ok"
                      /\ resolved'[t] # None
                      /\ resolved'[t][1] # None
                      /\ resolved'[t][1][1] \in SteamIds
                      /\ calls'[t] = 1
                      /\ remoteCalls' = remoteCalls
                   \/ /\ pc'[t] = "idle"
                      /\ lastReturn'[1].vshape = "failure"
                      /\ lastReturn'[1].calls = 1
                      /\ ~lastReturn'[1].result.ok
                      /\ remoteCalls' = remoteCalls
         ]_vars

\* A resolve whose vanity request was answered with status 429 returned that
\* status error after one remote request, while another resolve, answered
\* with the not-found shape, has its direct lookup in flight.
C15_Witness ==
    /\ lastReturn # None
    /\ lastReturn[1].vshape = "failure"
    /\ lastReturn[1].result = Err(ApiError(429))
    /\ lastReturn[1].calls = 1
    /\ \E t \in Tasks :
           /\ pc[t] = "summaries_wait"
           /\ vshape[t] = "NotFound"
           /\ calls[t] = 2
    /\ \E i \in ResolveIds : remoteCalls[i] = 3

\* The entries of the map for key k that have expired at the current instant.
ExpiredEntries(k) == {e \in EntriesOf(k) : now >= e.item.expiration}

\* C16. Refresh after expiry: a resolve whose cache lookup finds an expired
\* entry for its id, holding an id or None, does not return it but leaves
\* the map as it is and issues the vanity request; when its lookup completes
\* without failure, its store replaces the stale entry by the new outcome,
\* expiring 15 minutes after the store; and whatever a resolve returns from
\* the cache is the value of an unexpired entry.
C16_RefreshAfterExpiry ==
    [][\A t \in Tasks :
          /\ (LookupStep(t) /\ ExpiredEntries(arg[t]) # {})
             => /\ ~ReturnStep(t)
                /\ lastReturn' = lastReturn
                /\ cache' = cache
                /\ pc'[t] = "vanity_wait"
                /\ calls'[t] = 1
                /\ remoteCalls'[arg[t]] = remoteCalls[arg[t]] + 1
          /\ (StoreStep(t) /\ ExpiredEntries(arg[t]) # {})
             => /\ ~failed[t]
                /\ calls[t] \in {1, 2}
                /\ {e \in cache'.inner : e.key = arg[t]} =
                       {[key |-> arg[t],
                         item |-> [expiration |-> now + 900,
                                   value |-> resolved[t][1]]]}
                /\ lastReturn'[1].result = ok_or(resolved[t][1], NotFoundError)
                /\ ~lastReturn'[1].hit
          /\ (ReturnStep(t) /\ lastReturn'[1].hit)
             => /\ LookupStep(t)
                /\ \E e \in UnexpiredEntries(arg[t]) :
                       lastReturn'[1].result =
                           ok_or(e.item.value, NotFoundError)
      ]_vars

\* Sequential callers: the first resolve stored None; exactly 15 minutes
\* later the second resolve missed, looked the id up again, returned
\* Ok("123") and replaced the stale entry by that id, expiring 15 minutes on.
C16_Witness ==
    \E i \in ResolveIds :
        /\ lastStore[i] # None
        /\ lastStore[i][1].prev # None
        /\ lastStore[i][1].prev[1].value = None
        /\ lastStore[i][1].at = lastStore[i][1].prev[1].at + 900
        /\ lastStore[i][1].value = Some("123")
        /\ now = lastStore[i][1].at
        /\ lastReturn # None
        /\ lastReturn[1].arg = i
        /\ ~lastReturn[1].hit
        /\ lastReturn[1].stores = 1
        /\ lastReturn[1].result = Ok("123")
        /\ EntriesOf(i) =
               {[key |-> i,
                 item |-> [expiration |-> now + 900, value |-> Some("123")]]}

\* C17. Reads do not extend the TTL: a resolve answered from the cache
\* leaves the map, and so the expiration of the entry it read, as it was;
\* every entry expires 15 minutes after the most recent store on its id,
\* however often it was read; a lookup 15 minutes or more after that store
\* is a miss; and an entry changes only in the store of a resolve that has
\* made its remote lookup.
C17_NoSlidingExpiration ==
    /\ [](\A e \in cache.inner :
              /\ lastStore[e.key] # None
              /\ e.item.expiration = lastStore[e.key][1].at + 900)
    /\ [][/\ \A t \in Tasks :
                 /\ (LookupStep(t) /\ ReturnStep(t))
                    => /\ lastReturn'[1].hit
                       /\ cache' = cache
                       /\ lastStore' = lastStore
                 /\ (/\ LookupStep(t)
                     /\ lastStore[arg[t]] # None
                     /\ now >= lastStore[arg[t]][1].at + 900)
                    => /\ ~ReturnStep(t)
                       /\ pc'[t] = "vanity_wait"
                       /\ cache' = cache
          /\ \A e \in cache.inner :
                 e \notin cache'.inner =>
                     \E t \in Tasks :
                         /\ StoreStep(t)
                         /\ arg[t] = e.key
                         /\ calls[t] >= 1
                         /\ \E f \in cache'.inner :
                                /\ f.key = e.key
                                /\ f.item.expiration = now + 900
         ]_vars

\* Sequential callers: the first resolve stored an outcome, the second was
\* answered from the cache while the entry was unexpired, and the third,
\* looking up exactly 15 minutes after the store, missed and has its vanity
\* request in flight; the entry is as stored.
C17_Witness ==
    \E t \in Tasks :
        /\ pc[t] = "vanity_wait"
        /\ started = 3
        /\ lastStore[arg[t]] # None
        /\ now = lastStore[arg[t]][1].at + 900
        /\ ticks = 2
        /\ lastReturn # None
        /\ lastReturn[1].hit
        /\ lastReturn[1].arg = arg[t]
        /\ lastReturn[1].result =
               ok_or(lastStore[arg[t]][1].value, NotFoundError)
        /\ remoteCalls[arg[t]] = lastStore[arg[t]][1].calls + 1
        /\ EntriesOf(arg[t]) =
               {[key |-> arg[t],
                 item |-> [expiration |-> now,
                           value |-> lastStore[arg[t]][1].value]]}

----------------------------------------------------------------------------
(* Termination of resolve, checked under FairSpec *)

\* The position of a task in resolve, in program order.
Position(p) ==
    CASE p = "idle" -> 0
      [] p = "wait_lock1" -> 1
      [] p = "locked1" -> 2
      [] p = "vanity_wait" -> 3
      [] p = "summaries_wait" -> 4
      [] p = "wait_lock2" -> 5
      [] p = "locked2" -> 6

\* C18. Deadlock freedom and termination: with a fair lock and every remote
\* request eventually answered, every resolve that was called eventually
\* returns; a task takes the guard only at its first or its second
\* cache.write() and moves forward only, so at most twice in one resolve;
\* whoever holds the guard is at its lookup or its store, never waiting for
\* the lock or the network; and a task that returns, from a cache hit, from
\* a failed find or after its store, holds no guard.
C18_Termination ==
    /\ \A t \in Tasks : (pc[t] # "idle") ~> (pc[t] = "idle")
    /\ [](/\ lock # 0 => pc[lock] \in {"locked1", "locked2"}
          /\ \A t \in Tasks :
                 pc[t] \in {"locked1", "locked2"} => lock = t)
    /\ [][\A t \in Tasks :
             /\ (lock' = t /\ lock # t)
                => /\ lock = 0
                   /\ \/ pc[t] = "wait_lock1" /\ pc'[t] = "locked1"
                      \/ pc[t] = "wait_lock2" /\ pc'[t] = "locked2"
             /\ pc'[t] # pc[t]
                => \/ pc'[t] = "idle"
                   \/ Position(pc'[t]) > Position(pc[t])
             /\ ReturnStep(t)
                => /\ pc[t] \in {"locked1", "vanity_wait", "summaries_wait",
                                 "locked2"}
                   /\ lock' # t
                   /\ lock = t => lock' = 0
         ]_vars

\* Every resolve that was called has returned and the guard is free, after
\* one resolve failed in find, having sent a request and stored nothing,
\* and another went through both cache.write() calls and stored its outcome.
C18_Witness ==
    /\ \A t \in Tasks : pc[t] = "idle"
    /\ lock = 0
    /\ started >= 2
    /\ \E i \in ResolveIds :
           /\ lastStore[i] # None
           /\ lastStore[i][1].prev = None
           /\ remoteCalls[i] > lastStore[i][1].calls
    /\ lastReturn # None
    /\ lastReturn[1].failed

====
